---- MODULE Spec2Model ----
(***************************************************************************)
(* UnbalancedMerkleTreeCalculator (src/unnamed/part_009): an ephemeral     *)
(* unbalanced Merkle tree with a compressed (sentinel) leaf value.         *)
(*                                                                         *)
(* Buffers are modelled as tuples: a leaf buffer is <<k>>, the empty       *)
(* buffer is << >>, and the injected hasher is a free (collision-free)     *)
(* constructor hasher(l, r) = <<l, r>>, so two values are equal exactly    *)
(* when they were built from the same leaves in the same order.            *)
(*                                                                         *)
(* Levels are numbered as the calculator uses them: the root is at level 0 *)
(* (lines 93, 117, 122) and children live one level below their parent     *)
(* (lines 177-181).                                                        *)
(*                                                                         *)
(* BatchedBlobAccumulator (blob-lib/src/blob_batching.ts): field elements  *)
(* and curve points are symbolic terms <<tag, arguments>>; poseidon2Hash   *)
(* and sha256ToField are free constructors, so they are collision-free and *)
(* never zero, and a blob is identified by a number that determines its    *)
(* data, its commitment and its evaluations.                               *)
(***************************************************************************)
EXTENDS Integers, Sequences, FiniteSets, TLC

VARIABLES
  pc,            \* "idle" | "build" | "done" | "failed" | "crashed"
  leaves,        \* constructor argument: the leaf list
  valueToCompress, \* constructor argument: the sentinel
  store,         \* UnbalancedTreeStore: location -> TreeNode, sparse
  leafLocations, \* leafLocations[i+1] is the location of leaf i
  toProcess,     \* work list of the level being processed
  cursor,        \* number of entries of toProcess already processed
  toProcessNext, \* work list collected for the next level
  lvl,           \* loop variable i of buildTree
  hashCalls,     \* history: every invocation of the hasher, in order
  shifts,        \* history: every shiftNodeUp (from, to, node), in order
  thrown,        \* error thrown by the constructor, "none" if none
  result,        \* outcome of the last query
  hasherKind     \* constructor argument: which hasher was injected

(* BatchedBlobAccumulator (blob-lib/src/blob_batching.ts). *)
VARIABLES
  bpc,           \* "idle" | "created" | "failed" (newAccumulator threw)
  epochBlobs,    \* argument of newAccumulator: the blobs of each block
  accumulator,   \* the BatchedBlobAccumulator the caller holds
  accumulated,   \* history: the blocks accumulateBlobs has taken, in order
  blobOutcome    \* outcome of the last blob operation

treeVars == <<pc, leaves, valueToCompress, store, leafLocations, toProcess,
              cursor, toProcessNext, lvl, hashCalls, shifts, thrown, result,
              hasherKind>>

blobVars == <<bpc, epochBlobs, accumulator, accumulated, blobOutcome>>

(* SpongeBlob and Poseidon2Sponge (blob-lib/src/sponge_blob.ts). *)
VARIABLES
  spc,            \* "idle" | "init" (SpongeBlob.init) | "empty" (SpongeBlob.empty)
  spongeBlob,     \* the SpongeBlob: sponge, numAbsorbedFields, numExpectedFields
  spongePending,  \* each caller's call suspended at an await, or Idle
  spongeAbsorbed, \* history: number of fields the inner sponge has taken
  spongeOutcome   \* the last call: operation, argument, outcome

spongeVars == <<spc, spongeBlob, spongePending, spongeAbsorbed, spongeOutcome>>

(* Tx start markers (part_015). *)
VARIABLES
  mpc,            \* "idle" | "encoded" | "received" | "decoded"
  marker,         \* the marker given to encodeTxStartMarker
  markerPrefix,   \* the prefix the field was built with
  markerField,    \* the field: a bigint, least significant byte first
  decoded,        \* what decodeTxStartMarker returned
  markerValid     \* what isValidTxStartMarker returned for it

markerVars == <<mpc, marker, markerPrefix, markerField, decoded, markerValid>>

vars == <<treeVars, blobVars, spongeVars, markerVars>>

nonTreeVars == <<blobVars, spongeVars, markerVars>>
nonBlobVars == <<treeVars, spongeVars, markerVars>>
nonSpongeVars == <<treeVars, blobVars, markerVars>>
nonMarkerVars == <<treeVars, blobVars, spongeVars>>

----------------------------------------------------------------------------
(* Bounds *)

MaxLeaves == 6
NumLeafValues == 3

(* A leaf buffer <<k>>; <<0>> is the 32-byte zero buffer. *)
LeafValues == { <<k>> : k \in 0..(NumLeafValues - 1) }

Zero32 == <<0>>
EmptyBuffer == << >>

(* Default sentinels: Buffer.alloc(32) and Buffer.alloc(0). *)
Sentinels == { Zero32, EmptyBuffer }

LeafLists == UNION { [1..n -> LeafValues] : n \in 0..MaxLeaves }

undefined == 0 - 1

----------------------------------------------------------------------------
(* Arithmetic helpers *)

RECURSIVE Pow2(_)
Pow2(n) == IF n <= 0 THEN 1 ELSE 2 * Pow2(n - 1)

RECURSIVE FloorLog2(_)
FloorLog2(n) == IF n <= 1 THEN 0 ELSE 1 + FloorLog2(n \div 2)

----------------------------------------------------------------------------
(* The hasher *)

hasher(left, right) == <<left, right>>

(* A hasher whose output is 32 zero bytes, the default sentinel. *)
zeroHasher(left, right) == Zero32

HasherKinds == {"collisionFree", "zero"}

(* this.hasher(left, right) for the hasher that was injected. *)
callHasher(kind, left, right) ==
  IF kind = "zero" THEN zeroHasher(left, right) ELSE hasher(left, right)

----------------------------------------------------------------------------
(* UnbalancedTreeStore *)

Loc(level, index) == [level |-> level, index |-> index]

RootLocation == Loc(0, 0)

getParentLocation(location) ==
  Loc(location.level - 1, location.index \div 2)

getChildLocations(location) ==
  << Loc(location.level + 1, 2 * location.index),
     Loc(location.level + 1, 2 * location.index + 1) >>

SiblingLocation(location) ==
  Loc(location.level,
      IF location.index % 2 = 1 THEN location.index - 1 ELSE location.index + 1)

hasNode(st, location) == location \in DOMAIN st

setNode(st, location, node) ==
  [l \in (DOMAIN st) \cup {location} |-> IF l = location THEN node ELSE st[l]]

(* The position setLeaf assigns to leaf targetIndex among numLeaves leaves. *)
(* The store's code is not part of the sources; buildTree expects leaves   *)
(* at different levels (lines 121-128) and the class comment (lines 20-27) *)
(* fixes the shape: pairs are hashed greedily and the remaining rightmost  *)
(* nodes sit as high as they can be paired. So the largest balanced block  *)
(* of leaves forms the left subtree and the remaining leaves form the      *)
(* right subtree, one level below the root.                                *)
RECURSIVE findPosition(_, _, _, _)
findPosition(rootLevel, rootIndex, numLeaves, targetIndex) ==
  IF numLeaves <= 1 THEN Loc(rootLevel, rootIndex)
  ELSE LET depth == FloorLog2(numLeaves)
           numBalancedLeaves == Pow2(depth)
           numRemainingLeaves == numLeaves - numBalancedLeaves
       IN IF numRemainingLeaves = 0
          THEN Loc(rootLevel + depth, rootIndex * numBalancedLeaves + targetIndex)
          ELSE IF targetIndex < numBalancedLeaves
          THEN Loc(rootLevel + 1 + depth,
                   2 * rootIndex * numBalancedLeaves + targetIndex)
          ELSE findPosition(rootLevel + 1, 2 * rootIndex + 1,
                            numRemainingLeaves, targetIndex - numBalancedLeaves)

findLeafLevelAndIndex(numLeaves, leafIndex) ==
  findPosition(0, 0, numLeaves, leafIndex)

----------------------------------------------------------------------------
(* TreeNode *)

TreeNode(value, leafIndex) == [value |-> value, leafIndex |-> leafIndex]

----------------------------------------------------------------------------
(* Constructor and buildTree *)

(* Mutation: the constructor without its empty-list check. *)
EmptyLeafListNever(ls) == FALSE

EmptyLeafList(ls) == Len(ls) = 0

(* Mutation: no leaf is ever treated as compressed. *)
IsCompressedNever(value, sentinel) == FALSE

IsCompressed(value, sentinel) == value = sentinel

(* Mutation: the leaves written without their leaf index. *)
RECURSIVE setLeavesUntagged(_, _, _)
setLeavesUntagged(st, ls, i) ==
  IF i >= Len(ls) THEN st
  ELSE setLeavesUntagged(setNode(st, findLeafLevelAndIndex(Len(ls), i),
                                 TreeNode(ls[i + 1], undefined)),
                         ls, i + 1)

(* Line 111: every leaf is written to the store at its leaf location. *)
RECURSIVE setLeaves(_, _, _)
setLeaves(st, ls, i) ==
  IF i >= Len(ls) THEN st
  ELSE setLeaves(setNode(st, findLeafLevelAndIndex(Len(ls), i),
                         TreeNode(ls[i + 1], i)),
                 ls, i + 1)

InitialLeafLocations(ls) ==
  [i \in 1..Len(ls) |-> findLeafLevelAndIndex(Len(ls), i - 1)]

(* Mutation: the work list starts with every leaf, compressed or not. *)
NotCompressedLocationsAll(ls, sentinel) ==
  [k \in 1..Len(ls) |-> findLeafLevelAndIndex(Len(ls), k - 1)]

(* Line 114: the locations of the leaves that are not compressed. *)
NotCompressedLocations(ls, sentinel) ==
  LET keep == SelectSeq([i \in 1..Len(ls) |-> i],
                        LAMBDA i : ~IsCompressed(ls[i], sentinel))
  IN [k \in 1..Len(keep) |-> findLeafLevelAndIndex(Len(ls), keep[k] - 1)]

EmptyStore == [l \in {} |-> TreeNode(Zero32, undefined)]

NoResult ==
  [op |-> "none", index |-> undefined, value |-> EmptyBuffer,
   outcome |-> "none", path |-> << >>]

----------------------------------------------------------------------------
(* Blob batching: values *)

MaxBlobs == 2

(* Imported from @aztec/constants (line 1). *)
BLOBS_PER_BLOCK == 3

BlobIds == 1..MaxBlobs

(* The blob lists a block can carry: up to MaxBlobs blobs. *)
BlockInputs == UNION { [1..n -> BlobIds] : n \in 0..MaxBlobs }

(* Block lists longer than BLOBS_PER_BLOCK, one per blob. *)
OversizeBlocks == { [i \in 1..(BLOBS_PER_BLOCK + 1) |-> b] : b \in BlobIds }

RECURSIVE Flatten(_)
Flatten(blocks) ==
  IF Len(blocks) = 0 THEN << >> ELSE Head(blocks) \o Flatten(Tail(blocks))

(* The arguments of newAccumulator: at most MaxBlobs blocks holding at     *)
(* most MaxBlobs blobs together.                                           *)
EpochInputs ==
  { e \in UNION { [1..n -> BlockInputs] : n \in 0..MaxBlobs } :
      Len(Flatten(e)) <= MaxBlobs }

FrZERO == <<"0">>
BLS12FrZERO == <<"0">>
BLS12PointZERO == <<"0">>

isZero(v) == v = <<"0">>

poseidon2Hash(inputs) == <<"poseidon2", inputs>>

sha256ToField(inputs) == <<"sha256", inputs>>

commitment(blob) == <<"commitment", blob>>

toFields(blob) == <<"fields", blob>>

(* hash.ts 60-62: the 48 bytes split in a 31-byte and a 17-byte field. *)
commitmentToFields(c) == << <<"bytes0to30", c>>, <<"bytes31to47", c>> >>

(* hash.ts 65-68. *)
computeChallengeZ(blobFieldsHash, c) ==
  poseidon2Hash(<<blobFieldsHash, commitmentToFields(c)[1],
                  commitmentToFields(c)[2]>>)

(* hash.ts 134-135: fields[0] of an empty block is undefined, and          *)
(* fields[0].toNumber() throws.                                            *)
blobFieldsHashThrows(blobs) == Len(blobs) = 0

(* hash.ts 133-141, for blobs whose prefix counts all their fields. *)
computeBlobFieldsHashFromBlobs(blobs) ==
  poseidon2Hash([i \in 1..Len(blobs) |-> toFields(blobs[i])])

(* blob.evaluate(z): the opening y = p(z) and its KZG proof. *)
evaluate(blob, z) == [y |-> <<"y", blob, z>>, proof |-> <<"proof", blob, z>>]

decompress(c) == <<"point", c>>

(* hash.ts 74-77: the hash of the three limbs of the noir bignum. *)
hashNoirBigNumLimbs(field) ==
  poseidon2Hash(<< <<"limb0", field>>, <<"limb1", field>>, <<"limb2", field>> >>)

fromBN254Fr(v) == <<"bls12", v>>
toBN254Fr(v) == v[2]

add(a, b) == <<"add", a, b>>
mul(a, b) == <<"mul", a, b>>

(* Lines 77-85: the challenges of the blobs of the blocks, in order. *)
RECURSIVE challengeZs(_)
challengeZs(blocks) ==
  IF Len(blocks) = 0 THEN << >>
  ELSE LET blockBlobs == Head(blocks)
           blobFieldsHash == computeBlobFieldsHashFromBlobs(blockBlobs)
       IN [i \in 1..Len(blockBlobs) |->
             computeChallengeZ(blobFieldsHash, commitment(blockBlobs[i]))]
          \o challengeZs(Tail(blocks))

(* Lines 82-86 and 101-104: first, then poseidon2Hash([acc, next]). *)
RECURSIVE hashChain(_, _)
hashChain(values, n) ==
  IF n = 1 THEN values[1]
  ELSE poseidon2Hash(<<hashChain(values, n - 1), values[n]>>)

FinalBlobBatchingChallenges(z, gamma) == [z |-> z, gamma |-> gamma]

(* Lines 73-106. *)
precomputeBatchedBlobChallenges(blobs) ==
  IF \E k \in 1..Len(blobs) : blobFieldsHashThrows(blobs[k])
  THEN [outcome |-> "TypeError",
        challenges |-> FinalBlobBatchingChallenges(FrZERO, BLS12FrZERO)]
  ELSE IF Len(Flatten(blobs)) = 0
  THEN [outcome |-> "No blobs to precompute challenges for",
        challenges |-> FinalBlobBatchingChallenges(FrZERO, BLS12FrZERO)]
  ELSE LET z == hashChain(challengeZs(blobs), Len(Flatten(blobs)))
           allBlobs == Flatten(blobs)
           evaluations == [i \in 1..Len(allBlobs) |->
                             hashNoirBigNumLimbs(evaluate(allBlobs[i], z).y)]
           gamma == poseidon2Hash(<<hashChain(evaluations, Len(allBlobs)), z>>)
       IN [outcome |-> "ok",
           challenges |-> FinalBlobBatchingChallenges(z, fromBN254Fr(gamma))]

BatchedBlobAccumulator(v, z, y, c, q, gamma, gammaPow, challenges) ==
  [blobCommitmentsHashAcc |-> v, zAcc |-> z, yAcc |-> y, cAcc |-> c,
   qAcc |-> q, gammaAcc |-> gamma, gammaPow |-> gammaPow,
   finalBlobChallenges |-> challenges]

(* Lines 175-186. *)
newWithChallenges(finalBlobChallenges) ==
  BatchedBlobAccumulator(FrZERO, FrZERO, BLS12FrZERO, BLS12PointZERO,
                         BLS12PointZERO, FrZERO, BLS12FrZERO,
                         finalBlobChallenges)

(* Lines 296-306. *)
isEmptyState(a) ==
  /\ isZero(a.blobCommitmentsHashAcc)
  /\ isZero(a.zAcc)
  /\ isZero(a.yAcc)
  /\ isZero(a.cAcc)
  /\ isZero(a.qAcc)
  /\ isZero(a.gammaAcc)
  /\ isZero(a.gammaPow)

(* Mutation: the challenge accumulated as poseidon2Hash([z_i, zAcc]). *)
accumulateChallengeFirst(a, blob, blobFieldsHash) ==
  LET opening == evaluate(blob, a.finalBlobChallenges.z)
      thisY == opening.y
      thisC == decompress(commitment(blob))
      thisQ == decompress(opening.proof)
      blobChallengeZ == computeChallengeZ(blobFieldsHash, commitment(blob))
  IN IF isEmptyState(a)
     THEN BatchedBlobAccumulator(
            sha256ToField(<<commitment(blob)>>),
            blobChallengeZ,
            thisY,
            thisC,
            thisQ,
            hashNoirBigNumLimbs(thisY),
            a.finalBlobChallenges.gamma,
            a.finalBlobChallenges)
     ELSE BatchedBlobAccumulator(
            sha256ToField(<<a.blobCommitmentsHashAcc, commitment(blob)>>),
            poseidon2Hash(<<blobChallengeZ, a.zAcc>>),
            add(a.yAcc, mul(thisY, a.gammaPow)),
            add(a.cAcc, mul(thisC, a.gammaPow)),
            add(a.qAcc, mul(thisQ, a.gammaPow)),
            poseidon2Hash(<<a.gammaAcc, hashNoirBigNumLimbs(thisY)>>),
            mul(a.gammaPow, a.finalBlobChallenges.gamma),
            a.finalBlobChallenges)

(* Lines 193-232. *)
accumulate(a, blob, blobFieldsHash) ==
  LET opening == evaluate(blob, a.finalBlobChallenges.z)
      thisY == opening.y
      thisC == decompress(commitment(blob))
      thisQ == decompress(opening.proof)
      blobChallengeZ == computeChallengeZ(blobFieldsHash, commitment(blob))
  IN IF isEmptyState(a)
     THEN BatchedBlobAccumulator(
            sha256ToField(<<commitment(blob)>>),
            blobChallengeZ,
            thisY,
            thisC,
            thisQ,
            hashNoirBigNumLimbs(thisY),
            a.finalBlobChallenges.gamma,
            a.finalBlobChallenges)
     ELSE BatchedBlobAccumulator(
            sha256ToField(<<a.blobCommitmentsHashAcc, commitment(blob)>>),
            poseidon2Hash(<<a.zAcc, blobChallengeZ>>),
            add(a.yAcc, mul(thisY, a.gammaPow)),
            add(a.cAcc, mul(thisC, a.gammaPow)),
            add(a.qAcc, mul(thisQ, a.gammaPow)),
            poseidon2Hash(<<a.gammaAcc, hashNoirBigNumLimbs(thisY)>>),
            mul(a.gammaPow, a.finalBlobChallenges.gamma),
            a.finalBlobChallenges)

(* Lines 251-255: the loop over the blobs of one block. *)
RECURSIVE accumulateEach(_, _, _)
accumulateEach(a, blobs, blobFieldsHash) ==
  IF Len(blobs) = 0 THEN a
  ELSE accumulateEach(accumulate(a, Head(blobs), blobFieldsHash), Tail(blobs),
                      blobFieldsHash)

(* Lines 240-256. *)
accumulateBlobs(a, blobs) ==
  IF Len(blobs) > BLOBS_PER_BLOCK
  THEN [outcome |-> "Too many blobs to accumulate", acc |-> a]
  ELSE IF blobFieldsHashThrows(blobs)
  THEN [outcome |-> "TypeError", acc |-> a]
  ELSE [outcome |-> "ok",
        acc |-> accumulateEach(a, blobs, computeBlobFieldsHashFromBlobs(blobs))]

(* Lines 272-293, verifyProof = false. *)
finalize(a) ==
  LET calculatedGamma == poseidon2Hash(<<a.gammaAcc, a.zAcc>>)
  IN IF a.zAcc # a.finalBlobChallenges.z
     THEN "Blob batching mismatch: accumulated z"
     ELSE IF calculatedGamma # toBN254Fr(a.finalBlobChallenges.gamma)
     THEN "Blob batching mismatch: accumulated gamma"
     ELSE "ok"

NoChallenges == FinalBlobBatchingChallenges(FrZERO, BLS12FrZERO)

BlobOutcome(op, outcome) == [op |-> op, outcome |-> outcome]

----------------------------------------------------------------------------
(* Tx start markers: bigints are byte sequences, least significant byte    *)
(* first, without leading zero bytes; every width is a whole number of     *)
(* bytes.                                                                  *)

NUM_BLOB_FIELDS_BIT_SIZE == 32
REVERT_CODE_BIT_SIZE == 8
NUM_NOTE_HASH_BIT_SIZE == 16
NUM_NULLIFIER_BIT_SIZE == 16
NUM_L2_TO_L1_MSG_BIT_SIZE == 16
NUM_PUBLIC_DATA_WRITE_BIT_SIZE == 16
NUM_PRIVATE_LOG_BIT_SIZE == 16
PUBLIC_LOGS_LENGTH_BIT_SIZE == 32
CONTRACT_CLASS_LOG_LENGTH_BIT_SIZE == 16

BitsPerByte == 8
ByteBase == 2 ^ BitsPerByte

(* 0x74785f7374617274, the bytes of "tx_start". *)
TX_START_PREFIX == <<116, 114, 97, 116, 115, 95, 120, 116>>

BigZero == << >>

RECURSIVE stripZeros(_)
stripZeros(bytes) ==
  IF Len(bytes) = 0 THEN bytes
  ELSE IF bytes[Len(bytes)] = 0 THEN stripZeros(SubSeq(bytes, 1, Len(bytes) - 1))
  ELSE bytes

zeroBytes(bits) == [k \in 1..(bits \div BitsPerByte) |-> 0]

(* value << bits *)
shiftLeft(value, bits) ==
  IF Len(value) = 0 THEN BigZero ELSE zeroBytes(bits) \o value

(* value >> bits *)
shiftRight(value, bits) ==
  SubSeq(value, bits \div BitsPerByte + 1, Len(value))

(* value & (2n ** bits - 1n) *)
maskLow(value, bits) ==
  stripZeros(SubSeq(value, 1, IF Len(value) < bits \div BitsPerByte
                              THEN Len(value) ELSE bits \div BitsPerByte))

RECURSIVE addCarry(_, _, _)
addCarry(a, b, carry) ==
  IF Len(a) = 0 /\ Len(b) = 0
  THEN IF carry = 0 THEN BigZero ELSE <<carry>>
  ELSE LET x == IF Len(a) = 0 THEN 0 ELSE Head(a)
           y == IF Len(b) = 0 THEN 0 ELSE Head(b)
           sum == x + y + carry
       IN <<sum % ByteBase>>
            \o addCarry(IF Len(a) = 0 THEN a ELSE Tail(a),
                        IF Len(b) = 0 THEN b ELSE Tail(b),
                        sum \div ByteBase)

(* a + b *)
addBig(a, b) == stripZeros(addCarry(a, b, 0))

(* BigInt(n) and Number(v) of an integer below 2^53 are that integer. *)
BigInt(n) == n
Number(v) == v

FrThrows == <<"throws">>

(* new Fr(value): a value of at most 31 bytes is below the field modulus. *)
newFr(value) == IF Len(value) <= 31 THEN value ELSE FrThrows

(* field.toBigInt() *)
toBigInt(field) == field

(* Lines 30-49 with the prefix as a parameter. *)
encodeWithPrefix(prefix, m) ==
  LET v1 == addBig(shiftLeft(prefix, NUM_NOTE_HASH_BIT_SIZE), BigInt(m.numNoteHashes))
      v2 == addBig(shiftLeft(v1, NUM_NULLIFIER_BIT_SIZE), BigInt(m.numNullifiers))
      v3 == addBig(shiftLeft(v2, NUM_L2_TO_L1_MSG_BIT_SIZE), BigInt(m.numL2ToL1Msgs))
      v4 == addBig(shiftLeft(v3, NUM_PUBLIC_DATA_WRITE_BIT_SIZE),
                   BigInt(m.numPublicDataWrites))
      v5 == addBig(shiftLeft(v4, NUM_PRIVATE_LOG_BIT_SIZE), BigInt(m.numPrivateLogs))
      v6 == addBig(shiftLeft(v5, PUBLIC_LOGS_LENGTH_BIT_SIZE), BigInt(m.publicLogsLength))
      v7 == addBig(shiftLeft(v6, CONTRACT_CLASS_LOG_LENGTH_BIT_SIZE),
                   BigInt(m.contractClassLogLength))
      v8 == addBig(shiftLeft(v7, REVERT_CODE_BIT_SIZE), BigInt(m.revertCode))
      v9 == addBig(shiftLeft(v8, NUM_BLOB_FIELDS_BIT_SIZE), BigInt(m.numBlobFields))
  IN newFr(v9)

(* Lines 29-50. *)
encodeTxStartMarker(txStartMarker) ==
  encodeWithPrefix(TX_START_PREFIX, txStartMarker)

(* Mutation: revertCode and contractClassLogLength are read in the order   *)
(* of the interface, not of the encoding.                                  *)
decodeTxStartMarkerSwapped(field) ==
  LET v0 == toBigInt(field)
      v1 == shiftRight(v0, NUM_BLOB_FIELDS_BIT_SIZE)
      v2 == shiftRight(v1, CONTRACT_CLASS_LOG_LENGTH_BIT_SIZE)
      v3 == shiftRight(v2, REVERT_CODE_BIT_SIZE)
      v4 == shiftRight(v3, PUBLIC_LOGS_LENGTH_BIT_SIZE)
      v5 == shiftRight(v4, NUM_PRIVATE_LOG_BIT_SIZE)
      v6 == shiftRight(v5, NUM_PUBLIC_DATA_WRITE_BIT_SIZE)
      v7 == shiftRight(v6, NUM_L2_TO_L1_MSG_BIT_SIZE)
      v8 == shiftRight(v7, NUM_NULLIFIER_BIT_SIZE)
      v9 == shiftRight(v8, NUM_NOTE_HASH_BIT_SIZE)
  IN [prefix |-> v9,
      numBlobFields |-> Number(maskLow(v0, NUM_BLOB_FIELDS_BIT_SIZE)),
      revertCode |-> Number(maskLow(v2, REVERT_CODE_BIT_SIZE)),
      numNoteHashes |-> Number(maskLow(v8, NUM_NOTE_HASH_BIT_SIZE)),
      numNullifiers |-> Number(maskLow(v7, NUM_NULLIFIER_BIT_SIZE)),
      numL2ToL1Msgs |-> Number(maskLow(v6, NUM_L2_TO_L1_MSG_BIT_SIZE)),
      numPublicDataWrites |-> Number(maskLow(v5, NUM_PUBLIC_DATA_WRITE_BIT_SIZE)),
      numPrivateLogs |-> Number(maskLow(v4, NUM_PRIVATE_LOG_BIT_SIZE)),
      publicLogsLength |-> Number(maskLow(v3, PUBLIC_LOGS_LENGTH_BIT_SIZE)),
      contractClassLogLength |-> Number(maskLow(v1, CONTRACT_CLASS_LOG_LENGTH_BIT_SIZE))]

(* Lines 52-87. *)
decodeTxStartMarker(field) ==
  LET v0 == toBigInt(field)
      v1 == shiftRight(v0, NUM_BLOB_FIELDS_BIT_SIZE)
      v2 == shiftRight(v1, REVERT_CODE_BIT_SIZE)
      v3 == shiftRight(v2, CONTRACT_CLASS_LOG_LENGTH_BIT_SIZE)
      v4 == shiftRight(v3, PUBLIC_LOGS_LENGTH_BIT_SIZE)
      v5 == shiftRight(v4, NUM_PRIVATE_LOG_BIT_SIZE)
      v6 == shiftRight(v5, NUM_PUBLIC_DATA_WRITE_BIT_SIZE)
      v7 == shiftRight(v6, NUM_L2_TO_L1_MSG_BIT_SIZE)
      v8 == shiftRight(v7, NUM_NULLIFIER_BIT_SIZE)
      v9 == shiftRight(v8, NUM_NOTE_HASH_BIT_SIZE)
  IN [prefix |-> v9,
      numBlobFields |-> Number(maskLow(v0, NUM_BLOB_FIELDS_BIT_SIZE)),
      revertCode |-> Number(maskLow(v1, REVERT_CODE_BIT_SIZE)),
      numNoteHashes |-> Number(maskLow(v8, NUM_NOTE_HASH_BIT_SIZE)),
      numNullifiers |-> Number(maskLow(v7, NUM_NULLIFIER_BIT_SIZE)),
      numL2ToL1Msgs |-> Number(maskLow(v6, NUM_L2_TO_L1_MSG_BIT_SIZE)),
      numPublicDataWrites |-> Number(maskLow(v5, NUM_PUBLIC_DATA_WRITE_BIT_SIZE)),
      numPrivateLogs |-> Number(maskLow(v4, NUM_PRIVATE_LOG_BIT_SIZE)),
      publicLogsLength |-> Number(maskLow(v3, PUBLIC_LOGS_LENGTH_BIT_SIZE)),
      contractClassLogLength |-> Number(maskLow(v2, CONTRACT_CLASS_LOG_LENGTH_BIT_SIZE))]

(* Lines 93-95. *)
isValidTxStartMarker(txStartMarker) == txStartMarker.prefix = TX_START_PREFIX

(* The declared width of every field of the marker, lines 5-13. *)
BitSizeOf ==
  [numBlobFields |-> NUM_BLOB_FIELDS_BIT_SIZE,
   revertCode |-> REVERT_CODE_BIT_SIZE,
   numNoteHashes |-> NUM_NOTE_HASH_BIT_SIZE,
   numNullifiers |-> NUM_NULLIFIER_BIT_SIZE,
   numL2ToL1Msgs |-> NUM_L2_TO_L1_MSG_BIT_SIZE,
   numPublicDataWrites |-> NUM_PUBLIC_DATA_WRITE_BIT_SIZE,
   numPrivateLogs |-> NUM_PRIVATE_LOG_BIT_SIZE,
   publicLogsLength |-> PUBLIC_LOGS_LENGTH_BIT_SIZE,
   contractClassLogLength |-> CONTRACT_CLASS_LOG_LENGTH_BIT_SIZE]

MarkerFields == DOMAIN BitSizeOf

(* 2^bits - 1, the largest value of the width, and 2^bits, the smallest    *)
(* value above it.                                                         *)
maxOfWidth(bits) == [k \in 1..(bits \div BitsPerByte) |-> ByteBase - 1]
aboveWidth(bits) == zeroBytes(bits) \o <<1>>

(* The values a caller gives a field of the width: 0, 1, the largest. *)
samplesOfWidth(bits) == { BigZero, <<1>>, maxOfWidth(bits) }

(* The markers whose every field fits its width. *)
FittingMarkers ==
  [numBlobFields : samplesOfWidth(NUM_BLOB_FIELDS_BIT_SIZE),
   revertCode : samplesOfWidth(REVERT_CODE_BIT_SIZE),
   numNoteHashes : samplesOfWidth(NUM_NOTE_HASH_BIT_SIZE),
   numNullifiers : samplesOfWidth(NUM_NULLIFIER_BIT_SIZE),
   numL2ToL1Msgs : samplesOfWidth(NUM_L2_TO_L1_MSG_BIT_SIZE),
   numPublicDataWrites : samplesOfWidth(NUM_PUBLIC_DATA_WRITE_BIT_SIZE),
   numPrivateLogs : samplesOfWidth(NUM_PRIVATE_LOG_BIT_SIZE),
   publicLogsLength : samplesOfWidth(PUBLIC_LOGS_LENGTH_BIT_SIZE),
   contractClassLogLength : samplesOfWidth(CONTRACT_CLASS_LOG_LENGTH_BIT_SIZE)]

OnesMarker == [f \in MarkerFields |-> <<1>>]

(* The markers with one field just above its width. *)
OverWidthMarkers ==
  { [OnesMarker EXCEPT ![f] = aboveWidth(BitSizeOf[f])] : f \in MarkerFields }

Markers == FittingMarkers \cup OverWidthMarkers

(* Prefixes of fields that are not tx start markers: none, one byte, the   *)
(* last byte off by one, one byte more.                                    *)
OtherPrefixes ==
  { BigZero, <<1>>, [TX_START_PREFIX EXCEPT ![1] = 117],
    [TX_START_PREFIX EXCEPT ![Len(TX_START_PREFIX)] = 117],
    TX_START_PREFIX \o <<1>> }

NoMarker == [f \in MarkerFields |-> BigZero]
NoDecoded == [prefix |-> BigZero] @@ NoMarker

----------------------------------------------------------------------------
(* Sponge blob: values *)

MaxExpectedFields == 3
MaxAbsorbLength == 1

(* The asynchronous tasks that hold the blob; each awaits its own calls. *)
Callers == { "a", "b" }

Fr(n) == <<"fr", n>>
FrONE == Fr(1)
TWO_POW_64 == <<"TWO_POW_64">>

(* The field value a caller absorbs; the calls differ in how many. *)
FieldValues == { Fr(7) }

FieldLists == UNION { [1..n -> FieldValues] : n \in 0..MaxAbsorbLength }

(* poseidon2Permutation: a free permutation of the four state elements. *)
poseidon2Permutation(state) == [k \in 1..4 |-> <<"perm", k, state>>]

Poseidon2Sponge(cache, state, cacheSize, squeezeMode) ==
  [cache |-> cache, state |-> state, cacheSize |-> cacheSize,
   squeezeMode |-> squeezeMode]

(* Lines 135-142. *)
Poseidon2SpongeEmpty ==
  Poseidon2Sponge(<<FrZERO, FrZERO, FrZERO>>,
                  <<FrZERO, FrZERO, FrZERO, FrZERO>>, 0, FALSE)

(* Lines 144-149. *)
Poseidon2SpongeInit(numExpectedFields) ==
  [Poseidon2SpongeEmpty EXCEPT !.state[4] = mul(Fr(numExpectedFields), TWO_POW_64)]

(* An asynchronous call suspended at an await: pc is the method and line  *)
(* of the await, outer the SpongeBlob method that awaits the sponge's      *)
(* absorb, fields the fields absorb has not cached yet, count the length   *)
(* of the list SpongeBlob.absorb was given, perm the permutation the       *)
(* suspended performDuplex will store.                                     *)
InFlight(position, outer, fields, count, perm) ==
  [pc |-> position, outer |-> outer, fields |-> fields, count |-> count, perm |-> perm]

NoPerm == << >>

(* No call of the caller is suspended. *)
NoPending == InFlight("idle", "none", << >>, 0, NoPerm)

(* The end of a step: the blob after it, "ok" | "suspended" | the error    *)
(* thrown, the call left in flight, the Poseidon2Sponge method invoked.    *)
StepResult(blob, outcome, pending, called) ==
  [blob |-> blob, outcome |-> outcome, pending |-> pending, called |-> called]

(* Lines 155-159: performDuplex up to its await. *)
performDuplex(sp) ==
  [sp EXCEPT !.state = [k \in 1..4 |->
                          IF k <= Len(sp.cache) /\ k - 1 < sp.cacheSize
                          THEN add(sp.state[k], sp.cache[k])
                          ELSE sp.state[k]]]

(* Line 175. *)
cacheField(sp, field) ==
  [sp EXCEPT !.cache[sp.cacheSize + 1] = field, !.cacheSize = sp.cacheSize + 1]

(* The sponge's absorb has returned: a direct call is over, a SpongeBlob   *)
(* method is suspended at its await of it (line 63, line 71).              *)
absorbReturns(b, outer, count) ==
  IF outer = "none"
  THEN StepResult(b, "ok", NoPending, "none")
  ELSE StepResult(b, "suspended",
                  InFlight(IF outer = "SpongeBlob.absorb"
                           THEN "SpongeBlob.absorb:63"
                           ELSE "SpongeBlob.squeeze:71",
                           outer, << >>, count, NoPerm),
                  "none")

(* Lines 169-177: the loop runs until a full cache makes it await          *)
(* performDuplex, which awaits the permutation of the state it was given.  *)
RECURSIVE absorbLoop(_, _, _, _)
absorbLoop(b, fields, outer, count) ==
  IF Len(fields) = 0
  THEN absorbReturns(b, outer, count)
  ELSE IF b.sponge.cacheSize = Len(b.sponge.cache)
  THEN LET added == performDuplex(b.sponge)
       IN StepResult([b EXCEPT !.sponge = added], "suspended",
                     InFlight("absorb:160", outer, fields, count,
                              poseidon2Permutation(added.state)),
                     "none")
  ELSE absorbLoop([b EXCEPT !.sponge = cacheField(b.sponge, Head(fields))],
                  Tail(fields), outer, count)

(* Mutation: a squeezed sponge still absorbs. *)
poseidon2SpongeAbsorbAlways(b, fields, outer, count) ==
  [absorbLoop(b, fields, outer, count) EXCEPT !.called = "absorb"]

(* Lines 165-178, invoked on the sponge of b. *)
poseidon2SpongeAbsorb(b, fields, outer, count) ==
  IF b.sponge.squeezeMode
  THEN StepResult(b, "Poseidon sponge is not able to absorb more inputs.",
                  NoPending, "absorb")
  ELSE [absorbLoop(b, fields, outer, count) EXCEPT !.called = "absorb"]

(* Lines 180-184, invoked on the sponge of b. *)
poseidon2SpongeSqueeze(b) ==
  IF b.sponge.squeezeMode
  THEN StepResult(b, "Poseidon sponge has already been squeezed.",
                  NoPending, "squeeze")
  ELSE LET added == performDuplex(b.sponge)
       IN StepResult([b EXCEPT !.sponge = added], "suspended",
                     InFlight("squeeze:160", "none", << >>, 0,
                              poseidon2Permutation(added.state)),
                     "squeeze")

(* The inner sponge takes at most this many fields in a run: its cache is  *)
(* filled and flushed.                                                     *)
MaxSpongeFields == Len(Poseidon2SpongeEmpty.cache) + MaxAbsorbLength

SpongeBlob(sponge, numAbsorbedFields, numExpectedFields) ==
  [sponge |-> sponge, numAbsorbedFields |-> numAbsorbedFields,
   numExpectedFields |-> numExpectedFields]

(* Lines 76-78. *)
SpongeBlobEmpty == SpongeBlob(Poseidon2SpongeEmpty, 0, 0)

(* Lines 84-91: nothing else holds the new sponge while init awaits. *)
spongeBlobInit(numExpectedFields) ==
  LET fresh == SpongeBlob(Poseidon2SpongeInit(numExpectedFields), 0,
                          numExpectedFields)
      r == poseidon2SpongeAbsorb(fresh, <<Fr(numExpectedFields)>>, "none", 0)
  IN SpongeBlob(r.blob.sponge, 1, numExpectedFields)

(* Lines 57-63. *)
spongeBlobAbsorb(b, fields) ==
  IF b.numAbsorbedFields + Len(fields) > b.numExpectedFields
  THEN StepResult(b, "Attempted to fill spongeBlob over its max", NoPending,
                  "none")
  ELSE poseidon2SpongeAbsorb(b, fields, "SpongeBlob.absorb", Len(fields))

(* Lines 67-73. *)
spongeBlobSqueeze(b) ==
  IF b.numAbsorbedFields # b.numExpectedFields
  THEN poseidon2SpongeAbsorb(b, <<FrONE>>, "SpongeBlob.squeeze", 0)
  ELSE poseidon2SpongeSqueeze(b)

(* A suspended call goes on from its await to its next await or its end. *)
resume(b, call) ==
  CASE call.pc = "absorb:160" ->
         StepResult([b EXCEPT !.sponge.state = call.perm], "suspended",
                    [call EXCEPT !.pc = "absorb:171"], "none")
    [] call.pc = "absorb:171" ->
         absorbLoop([b EXCEPT !.sponge.cache[1] = Head(call.fields),
                              !.sponge.cacheSize = 1],
                    Tail(call.fields), call.outer, call.count)
    [] call.pc = "squeeze:160" ->
         StepResult([b EXCEPT !.sponge.state = call.perm], "suspended",
                    [call EXCEPT !.pc = "squeeze:184"], "none")
    [] call.pc = "squeeze:184" ->
         StepResult([b EXCEPT !.sponge.squeezeMode = TRUE], "ok", NoPending,
                    "none")
    [] call.pc = "SpongeBlob.absorb:63" ->
         StepResult([b EXCEPT !.numAbsorbedFields = @ + call.count], "ok",
                    NoPending, "none")
    [] call.pc = "SpongeBlob.squeeze:71" ->
         poseidon2SpongeSqueeze(b)

(* What the last step did: the method, its fields, the Poseidon2Sponge     *)
(* method it invoked ("none" | "absorb" | "squeeze") and how it ended.     *)
SpongeOutcome(op, fields, called, outcome) ==
  [op |-> op, fields |-> fields, called |-> called, outcome |-> outcome]

----------------------------------------------------------------------------

Init ==
  /\ spc = "idle"
  /\ spongeBlob = SpongeBlobEmpty
  /\ spongePending = [caller \in Callers |-> NoPending]
  /\ spongeAbsorbed = 0
  /\ spongeOutcome = SpongeOutcome("none", << >>, "none", "none")
  /\ mpc = "idle"
  /\ marker = NoMarker
  /\ markerPrefix = BigZero
  /\ markerField = BigZero
  /\ decoded = NoDecoded
  /\ markerValid = FALSE
  /\ bpc = "idle"
  /\ epochBlobs = << >>
  /\ accumulator = newWithChallenges(NoChallenges)
  /\ accumulated = << >>
  /\ blobOutcome = BlobOutcome("none", "none")
  /\ pc = "idle"
  /\ leaves = << >>
  /\ valueToCompress = EmptyBuffer
  /\ store = EmptyStore
  /\ leafLocations = << >>
  /\ toProcess = << >>
  /\ cursor = 0
  /\ toProcessNext = << >>
  /\ lvl = 0
  /\ hashCalls = << >>
  /\ shifts = << >>
  /\ thrown = "none"
  /\ result = NoResult
  /\ hasherKind = "collisionFree"

(* new UnbalancedMerkleTreeCalculator(ls, sentinel, hasher), up to the     *)
(* first test of the level loop of buildTree.                              *)
Construct(kind) ==
  /\ UNCHANGED nonTreeVars
  /\ pc = "idle"
  /\ hasherKind' = kind
  /\ \E ls \in LeafLists, sentinel \in Sentinels :
       /\ leaves' = ls
       /\ valueToCompress' = sentinel
       /\ IF EmptyLeafList(ls)
          THEN /\ pc' = "failed"
               /\ thrown' = "Cannot create a compressed unbalanced tree with 0 leaves."
               /\ UNCHANGED <<store, leafLocations, toProcess, lvl>>
          ELSE LET withLeaves == setLeaves(EmptyStore, ls, 0)
                   start == NotCompressedLocations(ls, sentinel)
               IN /\ leafLocations' = InitialLeafLocations(ls)
                  /\ thrown' = "none"
                  /\ IF Len(start) = 0
                     THEN /\ store' = setNode(withLeaves, RootLocation,
                                              TreeNode(Zero32, undefined))
                          /\ toProcess' = << >>
                          /\ lvl' = 0
                          /\ pc' = "done"
                     ELSE /\ store' = withLeaves
                          /\ toProcess' = start
                          /\ lvl' = start[1].level
                          /\ pc' = IF start[1].level > 0 THEN "build" ELSE "done"
  /\ UNCHANGED <<cursor, toProcessNext, hashCalls, shifts, result>>

(* Constructed with the default hasher (line 48). *)
Constructor == Construct("collisionFree")

(* Constructed with a hasher the caller injects. *)
ConstructorWithHasher == \E kind \in HasherKinds : Construct(kind)

(* The builder's mutable state while one work-list entry is processed. *)
BuildState(st, locs, sh, ok) ==
  [store |-> st, locs |-> locs, shifts |-> sh, ok |-> ok]

IsLeafNode(st, location) ==
  hasNode(st, location) /\ st[location].leafIndex # undefined

(* Mutation: shiftNodeUp that forgets to record the leaf's new location. *)
shiftNodeUpNoRelocate(bs, fromLocation, toLocation) ==
  IF ~bs.ok THEN bs
  ELSE IF ~hasNode(bs.store, fromLocation)
    THEN [bs EXCEPT !.ok = FALSE]
    ELSE [bs EXCEPT !.store = setNode(bs.store, toLocation, bs.store[fromLocation])]

(* shiftNodeUp: copies the node at fromLocation to toLocation; a missing   *)
(* node is stored as undefined and then dereferenced, which throws.        *)
shiftNodeUp(bs, fromLocation, toLocation) ==
  IF ~bs.ok THEN bs
  ELSE IF ~hasNode(bs.store, fromLocation)
    THEN [bs EXCEPT !.ok = FALSE,
                    !.store = [l \in (DOMAIN bs.store) \ {toLocation} |-> bs.store[l]]]
    ELSE LET node == bs.store[fromLocation]
         IN [store  |-> setNode(bs.store, toLocation, node),
             locs   |-> IF node.leafIndex # undefined
                        THEN [bs.locs EXCEPT ![node.leafIndex + 1] = toLocation]
                        ELSE bs.locs,
             shifts |-> Append(bs.shifts,
                               [from |-> fromLocation, to |-> toLocation,
                                node |-> node]),
             ok     |-> TRUE]

computeNewLocation(level, index) ==
  LET groupSize == Pow2(level)
  IN Loc(level, (index \div (groupSize * 2)) * groupSize + (index % groupSize))

RECURSIVE shiftChildrenUp(_, _)
shiftChildrenUp(bs, parent) ==
  IF ~bs.ok THEN bs
  ELSE LET left  == getChildLocations(parent)[1]
           right == getChildLocations(parent)[2]
           level == parent.level
           isLeftLeaf  == IsLeafNode(bs.store, left)
           afterLeft   == shiftNodeUp(bs, left, computeNewLocation(level, left.index))
           isRightLeaf == IsLeafNode(afterLeft.store, right)
           afterRight  == shiftNodeUp(afterLeft, right,
                                      computeNewLocation(level, right.index))
           afterLeftChildren ==
             IF afterRight.ok /\ ~isLeftLeaf
             THEN shiftChildrenUp(afterRight, left) ELSE afterRight
       IN IF afterLeftChildren.ok /\ ~isRightLeaf
          THEN shiftChildrenUp(afterLeftChildren, right)
          ELSE afterLeftChildren

(* Mutation: only an absent sibling shifts the node up; a compressed leaf  *)
(* as sibling is hashed like any other node.                               *)
shouldShiftUpAbsentOnly(st, location, sentinel) ==
  ~hasNode(st, SiblingLocation(location))

(* Line 138. *)
shouldShiftUp(st, location, sentinel) ==
  \/ ~hasNode(st, SiblingLocation(location))
  \/ IsCompressed(st[SiblingLocation(location)].value, sentinel)

(* Lines 141-144. *)
shiftUp(bs, location, parentLocation) ==
  LET isLeaf == IsLeafNode(bs.store, location)
      moved  == shiftNodeUp(bs, location, parentLocation)
  IN IF moved.ok /\ ~isLeaf THEN shiftChildrenUp(moved, location) ELSE moved

(* Mutation: the hash operands exchanged. *)
hashWithSiblingSwapped(kind, node, sibling) ==
  callHasher(kind, sibling.value, node.value)

(* Lines 147-148: the node being processed is the first operand. *)
hashWithSibling(kind, node, sibling) ==
  callHasher(kind, node.value, sibling.value)

(* One iteration of the inner loop of buildTree (lines 124-154). *)
ProcessLocation ==
  /\ UNCHANGED nonTreeVars
  /\ UNCHANGED hasherKind
  /\ pc = "build"
  /\ cursor < Len(toProcess)
  /\ LET location == toProcess[cursor + 1]
         parentLocation == getParentLocation(location)
     IN /\ cursor' = cursor + 1
        /\ IF location.level # lvl
           THEN /\ toProcessNext' = Append(toProcessNext, location)
                /\ UNCHANGED <<pc, store, leafLocations, hashCalls, shifts, thrown>>
           ELSE IF hasNode(store, parentLocation)
           THEN UNCHANGED <<pc, store, leafLocations, toProcessNext,
                            hashCalls, shifts, thrown>>
           ELSE IF shouldShiftUp(store, location, valueToCompress)
           THEN LET bs == shiftUp(BuildState(store, leafLocations, shifts, TRUE),
                                  location, parentLocation)
                IN /\ store' = bs.store
                   /\ leafLocations' = bs.locs
                   /\ shifts' = bs.shifts
                   /\ UNCHANGED hashCalls
                   /\ IF bs.ok
                      THEN /\ toProcessNext' = Append(toProcessNext, parentLocation)
                           /\ UNCHANGED <<pc, thrown>>
                      ELSE /\ pc' = "crashed"
                           /\ thrown' = "TypeError"
                           /\ UNCHANGED toProcessNext
           ELSE LET node == store[location]
                    sibling == store[SiblingLocation(location)]
                    parentValue == hashWithSibling(hasherKind, node, sibling)
                IN /\ store' = setNode(store, parentLocation,
                                       TreeNode(parentValue, undefined))
                   /\ hashCalls' = Append(hashCalls,
                                          [at |-> location, left |-> node.value,
                                           right |-> sibling.value])
                   /\ toProcessNext' = Append(toProcessNext, parentLocation)
                   /\ UNCHANGED <<pc, leafLocations, shifts, thrown>>
  /\ UNCHANGED <<leaves, valueToCompress, toProcess, lvl, result>>

(* End of one iteration of the level loop (lines 122, 156). *)
EndLevel ==
  /\ UNCHANGED nonTreeVars
  /\ UNCHANGED hasherKind
  /\ pc = "build"
  /\ cursor = Len(toProcess)
  /\ toProcess' = toProcessNext
  /\ toProcessNext' = << >>
  /\ cursor' = 0
  /\ lvl' = lvl - 1
  /\ pc' = IF lvl - 1 > 0 THEN "build" ELSE "done"
  /\ UNCHANGED <<leaves, valueToCompress, store, leafLocations, hashCalls,
                 shifts, thrown, result>>

----------------------------------------------------------------------------
(* Queries *)

Answer(op, index, value, outcome, path) ==
  [op |-> op, index |-> index, value |-> value, outcome |-> outcome,
   path |-> path]

(* Lines 57-59. *)
RootOf(st) ==
  IF hasNode(st, RootLocation)
  THEN [outcome |-> "ok", value |-> st[RootLocation].value]
  ELSE [outcome |-> "TypeError", value |-> EmptyBuffer]

(* Mutation: a getRoot that removes the root node it returns. *)
GetRootConsuming ==
  /\ UNCHANGED nonTreeVars
  /\ UNCHANGED hasherKind
  /\ pc = "done"
  /\ result' = Answer("getRoot", undefined, RootOf(store).value,
                      RootOf(store).outcome, << >>)
  /\ store' = [l \in (DOMAIN store) \ {RootLocation} |-> store[l]]
  /\ UNCHANGED <<pc, leaves, valueToCompress, leafLocations, toProcess,
                 cursor, toProcessNext, lvl, hashCalls, shifts, thrown>>

GetRoot ==
  /\ UNCHANGED nonTreeVars
  /\ UNCHANGED hasherKind
  /\ pc = "done"
  /\ result' = Answer("getRoot", undefined, RootOf(store).value,
                      RootOf(store).outcome, << >>)
  /\ UNCHANGED <<pc, leaves, valueToCompress, store, leafLocations, toProcess,
                 cursor, toProcessNext, lvl, hashCalls, shifts, thrown>>

(* Mutation: the walk stops one level below the root. *)
RECURSIVE walkUpStopsBelowRoot(_, _, _)
walkUpStopsBelowRoot(st, location, path) ==
  IF location.level > 1
  THEN IF hasNode(st, SiblingLocation(location))
       THEN walkUpStopsBelowRoot(st, getParentLocation(location),
                                 Append(path, st[SiblingLocation(location)].value))
       ELSE [outcome |-> "TypeError", path |-> << >>]
  ELSE [outcome |-> "ok", path |-> path]

(* Mutation: the walk also asks for a sibling of the root. *)
RECURSIVE walkUpThroughRoot(_, _, _)
walkUpThroughRoot(st, location, path) ==
  IF location.level >= 0
  THEN IF hasNode(st, SiblingLocation(location))
       THEN walkUpThroughRoot(st, getParentLocation(location),
                              Append(path, st[SiblingLocation(location)].value))
       ELSE [outcome |-> "TypeError", path |-> << >>]
  ELSE [outcome |-> "ok", path |-> path]

(* Mutation: the path collected root-adjacent sibling first. *)
RECURSIVE walkUpRootFirst(_, _, _)
walkUpRootFirst(st, location, path) ==
  IF location.level > 0
  THEN IF hasNode(st, SiblingLocation(location))
       THEN walkUpRootFirst(st, getParentLocation(location),
                            <<st[SiblingLocation(location)].value>> \o path)
       ELSE [outcome |-> "TypeError", path |-> << >>]
  ELSE [outcome |-> "ok", path |-> path]

(* Lines 91-97: the walk from a location up to the root. *)
RECURSIVE walkUp(_, _, _)
walkUp(st, location, path) ==
  IF location.level > 0
  THEN IF hasNode(st, SiblingLocation(location))
       THEN walkUp(st, getParentLocation(location),
                   Append(path, st[SiblingLocation(location)].value))
       ELSE [outcome |-> "TypeError", path |-> << >>]
  ELSE [outcome |-> "ok", path |-> path]

(* Line 82. *)
IndexOutOfBounds(leafIndex, numLeaves) == leafIndex >= numLeaves

(* Mutation: no test for a compressed leaf before the walk. *)
siblingPathByLeafIndexNoCompressedTest(ls, sentinel, st, locs, leafIndex) ==
  IF IndexOutOfBounds(leafIndex, Len(ls))
  THEN [outcome |-> "out of bounds", path |-> << >>]
  ELSE IF leafIndex < 0
  THEN [outcome |-> "TypeError", path |-> << >>]
  ELSE walkUp(st, locs[leafIndex + 1], << >>)

(* Lines 81-100. *)
siblingPathByLeafIndex(ls, sentinel, st, locs, leafIndex) ==
  IF IndexOutOfBounds(leafIndex, Len(ls))
  THEN [outcome |-> "out of bounds", path |-> << >>]
  ELSE IF leafIndex < 0
  THEN [outcome |-> "TypeError", path |-> << >>]
  ELSE IF IsCompressed(ls[leafIndex + 1], sentinel)
  THEN [outcome |-> "has been compressed", path |-> << >>]
  ELSE walkUp(st, locs[leafIndex + 1], << >>)

GetSiblingPathByLeafIndex ==
  /\ UNCHANGED nonTreeVars
  /\ UNCHANGED hasherKind
  /\ pc = "done"
  /\ \E leafIndex \in (0 - 1)..(MaxLeaves + 1) :
       LET r == siblingPathByLeafIndex(leaves, valueToCompress, store,
                                       leafLocations, leafIndex)
       IN result' = Answer("getSiblingPathByLeafIndex", leafIndex, EmptyBuffer,
                           r.outcome, r.path)
  /\ UNCHANGED <<pc, leaves, valueToCompress, store, leafLocations, toProcess,
                 cursor, toProcessNext, lvl, hashCalls, shifts, thrown>>

(* Mutation: the last matching index instead of the first. *)
findLastIndex(ls, value) ==
  IF \E i \in 1..Len(ls) : ls[i] = value
  THEN (CHOOSE i \in 1..Len(ls) :
          ls[i] = value /\ \A j \in (i + 1)..Len(ls) : ls[j] # value) - 1
  ELSE undefined

(* Line 68: leaves.findIndex(leaf => leaf.equals(value)). *)
findIndex(ls, value) ==
  IF \E i \in 1..Len(ls) : ls[i] = value
  THEN (CHOOSE i \in 1..Len(ls) :
          ls[i] = value /\ \A j \in 1..(i - 1) : ls[j] # value) - 1
  ELSE undefined

(* Mutation: no test for a value that is not a leaf. *)
siblingPathNoNotFoundTest(ls, sentinel, st, locs, value) ==
  siblingPathByLeafIndex(ls, sentinel, st, locs, findIndex(ls, value))

(* Lines 67-74. *)
siblingPath(ls, sentinel, st, locs, value) ==
  IF findIndex(ls, value) = undefined
  THEN [outcome |-> "not found", path |-> << >>]
  ELSE siblingPathByLeafIndex(ls, sentinel, st, locs, findIndex(ls, value))

GetSiblingPath ==
  /\ UNCHANGED nonTreeVars
  /\ UNCHANGED hasherKind
  /\ pc = "done"
  /\ \E value \in LeafValues \cup Sentinels :
       LET r == siblingPath(leaves, valueToCompress, store, leafLocations, value)
       IN result' = Answer("getSiblingPath", undefined, value, r.outcome, r.path)
  /\ UNCHANGED <<pc, leaves, valueToCompress, store, leafLocations, toProcess,
                 cursor, toProcessNext, lvl, hashCalls, shifts, thrown>>

Next ==
  \/ Constructor
  \/ ProcessLocation
  \/ EndLevel
  \/ GetRoot
  \/ GetSiblingPathByLeafIndex
  \/ GetSiblingPath

Spec == Init /\ [][Next]_vars

(* BatchedBlobAccumulator.newAccumulator(blobs), lines 56-59. *)
NewAccumulator ==
  /\ bpc = "idle"
  /\ \E blobs \in EpochInputs :
       LET pre == precomputeBatchedBlobChallenges(blobs)
       IN /\ epochBlobs' = blobs
          /\ bpc' = IF pre.outcome = "ok" THEN "created" ELSE "failed"
          /\ accumulator' = newWithChallenges(pre.challenges)
          /\ blobOutcome' = BlobOutcome("newAccumulator", pre.outcome)
  /\ UNCHANGED accumulated
  /\ UNCHANGED nonBlobVars

(* acc = await acc.accumulateBlobs(blobs): on a throw the caller keeps the *)
(* accumulator it had.                                                     *)
AccumulateBlobs ==
  /\ bpc = "created"
  /\ \E blobs \in BlockInputs \cup OversizeBlocks :
       /\ IF blobs \in OversizeBlocks THEN TRUE
          ELSE Len(Flatten(accumulated)) + Len(blobs) <= MaxBlobs
       /\ LET r == accumulateBlobs(accumulator, blobs)
          IN /\ accumulator' = r.acc
             /\ accumulated' = IF r.outcome = "ok"
                               THEN Append(accumulated, blobs)
                               ELSE accumulated
             /\ blobOutcome' = BlobOutcome("accumulateBlobs", r.outcome)
  /\ UNCHANGED <<bpc, epochBlobs>>
  /\ UNCHANGED nonBlobVars

(* acc.finalize(). *)
Finalize ==
  /\ bpc = "created"
  /\ blobOutcome' = BlobOutcome("finalize", finalize(accumulator))
  /\ UNCHANGED <<bpc, epochBlobs, accumulator, accumulated>>
  /\ UNCHANGED nonBlobVars

NextBlob ==
  \/ NewAccumulator
  \/ AccumulateBlobs
  \/ Finalize

SpecBlob == Init /\ [][NextBlob]_vars

(* Construction with any injected hasher. *)
NextHasher ==
  \/ ConstructorWithHasher
  \/ ProcessLocation
  \/ EndLevel

SpecHasher == Init /\ [][NextHasher]_vars

(* SpongeBlob.init(numExpectedFields): the blob exists once init is done. *)
SpongeBlobInit ==
  /\ spc = "idle"
  /\ \E n \in 0..MaxExpectedFields :
       /\ spongeBlob' = spongeBlobInit(n)
       /\ spongeOutcome' = SpongeOutcome("SpongeBlob.init", <<Fr(n)>>, "absorb", "ok")
  /\ spc' = "init"
  /\ spongeAbsorbed' = 1
  /\ UNCHANGED spongePending
  /\ UNCHANGED nonSpongeVars

(* SpongeBlob.empty(). *)
SpongeBlobCreateEmpty ==
  /\ spc = "idle"
  /\ spongeBlob' = SpongeBlobEmpty
  /\ spongeOutcome' = SpongeOutcome("SpongeBlob.empty", << >>, "none", "ok")
  /\ spc' = "empty"
  /\ UNCHANGED <<spongePending, spongeAbsorbed>>
  /\ UNCHANGED nonSpongeVars

(* A caller with no call in flight calls a method; r is the call run to   *)
(* its first await or to its end.                                          *)
Called(caller, op, fields, r) ==
  /\ spc # "idle"
  /\ spongePending[caller] = NoPending
  /\ spongeAbsorbed + Len(fields) <= MaxSpongeFields
  /\ spongeBlob' = r.blob
  /\ spongePending' = [spongePending EXCEPT ![caller] = r.pending]
  /\ spongeOutcome' = SpongeOutcome(op, fields, r.called, r.outcome)
  /\ spongeAbsorbed' = IF r.outcome \in {"ok", "suspended"} /\ r.called = "absorb"
                       THEN spongeAbsorbed + Len(fields)
                       ELSE spongeAbsorbed
  /\ UNCHANGED spc
  /\ UNCHANGED nonSpongeVars

(* spongeBlob.absorb(fields). *)
SpongeBlobAbsorb ==
  \E caller \in Callers, fields \in FieldLists :
    Called(caller, "SpongeBlob.absorb", fields,
           spongeBlobAbsorb(spongeBlob, fields))

(* spongeBlob.squeeze(); the padding field counts as absorbed. *)
SpongeBlobSqueeze ==
  \E caller \in Callers :
    LET r == spongeBlobSqueeze(spongeBlob)
    IN Called(caller, "SpongeBlob.squeeze",
              IF r.called = "absorb" THEN <<FrONE>> ELSE << >>, r)

(* A suspended call is resumed; which one is not decided here, the         *)
(* permutation each awaits is settled at a time of its own.                *)
SpongeBlobResume ==
  \E caller \in Callers :
    /\ spongePending[caller] # NoPending
    /\ LET r == resume(spongeBlob, spongePending[caller])
       IN /\ spongeBlob' = r.blob
          /\ spongePending' = [spongePending EXCEPT ![caller] = r.pending]
          /\ spongeOutcome' = SpongeOutcome("resumed", << >>, r.called, r.outcome)
    /\ UNCHANGED <<spc, spongeAbsorbed>>
    /\ UNCHANGED nonSpongeVars

(* spongeBlob.sponge.absorb(fields): the sponge is a public field. *)
Poseidon2SpongeAbsorb ==
  \E caller \in Callers, fields \in FieldLists :
    Called(caller, "Poseidon2Sponge.absorb", fields,
           poseidon2SpongeAbsorb(spongeBlob, fields, "none", 0))

(* spongeBlob.sponge.squeeze(). *)
Poseidon2SpongeSqueeze ==
  \E caller \in Callers :
    Called(caller, "Poseidon2Sponge.squeeze", << >>,
           poseidon2SpongeSqueeze(spongeBlob))

NextSponge ==
  \/ SpongeBlobInit
  \/ SpongeBlobCreateEmpty
  \/ SpongeBlobAbsorb
  \/ SpongeBlobSqueeze
  \/ SpongeBlobResume
  \/ Poseidon2SpongeAbsorb
  \/ Poseidon2SpongeSqueeze

SpecSponge == Init /\ [][NextSponge]_vars

(* encodeTxStartMarker(marker). *)
EncodeTxStartMarker ==
  /\ mpc = "idle"
  /\ \E m \in Markers :
       /\ marker' = m
       /\ markerField' = encodeTxStartMarker(m)
  /\ markerPrefix' = TX_START_PREFIX
  /\ mpc' = "encoded"
  /\ UNCHANGED <<decoded, markerValid>>
  /\ UNCHANGED nonMarkerVars

(* A field that was not made by encodeTxStartMarker is read from a blob. *)
ReceiveField ==
  /\ mpc = "idle"
  /\ \E prefix \in OtherPrefixes, m \in {NoMarker, OnesMarker} :
       /\ marker' = m
       /\ markerPrefix' = prefix
       /\ markerField' = encodeWithPrefix(prefix, m)
  /\ mpc' = "received"
  /\ UNCHANGED <<decoded, markerValid>>
  /\ UNCHANGED nonMarkerVars

(* decodeTxStartMarker(field), then isValidTxStartMarker of the result. *)
DecodeTxStartMarker ==
  /\ mpc \in {"encoded", "received"}
  /\ markerField # FrThrows
  /\ decoded' = decodeTxStartMarker(markerField)
  /\ markerValid' = isValidTxStartMarker(decoded')
  /\ mpc' = "decoded"
  /\ UNCHANGED <<marker, markerPrefix, markerField>>
  /\ UNCHANGED nonMarkerVars

NextMarker ==
  \/ EncodeTxStartMarker
  \/ ReceiveField
  \/ DecodeTxStartMarker

SpecMarker == Init /\ [][NextMarker]_vars

----------------------------------------------------------------------------
(* Reference definitions used by the properties *)

NumLeaves == Len(leaves)

LeafIndices == 0..(NumLeaves - 1)

NoLeafCompressed == \A i \in 1..NumLeaves : leaves[i] # valueToCompress

AllLeavesCompressed == \A i \in 1..NumLeaves : leaves[i] = valueToCompress

NumCompressed == Cardinality({ i \in 1..NumLeaves : leaves[i] = valueToCompress })

(* Re-hashing a value upward through a sibling path: at each step the node *)
(* at the even index is the left operand, the one at the odd index the     *)
(* right operand.                                                          *)
RECURSIVE FoldUp(_, _, _)
FoldUp(value, location, path) ==
  IF Len(path) = 0 THEN value
  ELSE FoldUp(IF location.index % 2 = 0
              THEN <<value, Head(path)>>
              ELSE <<Head(path), value>>,
              [level |-> location.level - 1, index |-> location.index \div 2],
              Tail(path))

(* The tree shape of count leaves: a power of two splits in halves,        *)
(* otherwise the largest power of two goes left and the rest right.        *)
LeftCount(count) ==
  IF Pow2(FloorLog2(count)) = count THEN count \div 2 ELSE Pow2(FloorLog2(count))

(* R of the subtree over leaves first..first+count-1: "none" when all of   *)
(* them are compressed, the other child when one child is "none", the hash *)
(* of both children otherwise.                                             *)
RECURSIVE RefRoot(_, _)
RefRoot(first, count) ==
  IF count = 1
  THEN IF leaves[first] = valueToCompress
       THEN [some |-> FALSE, value |-> << >>]
       ELSE [some |-> TRUE, value |-> leaves[first]]
  ELSE LET l == RefRoot(first, LeftCount(count))
           r == RefRoot(first + LeftCount(count), count - LeftCount(count))
       IN IF ~l.some THEN r
          ELSE IF ~r.some THEN l
          ELSE [some |-> TRUE, value |-> <<l.value, r.value>>]

ByIndexAnswered ==
  /\ result.op = "getSiblingPathByLeafIndex"
  /\ result.index \in LeafIndices

----------------------------------------------------------------------------
(* Properties *)

(* C1: for a non-empty leaf list without a compressed leaf, folding leaf i *)
(* upward through the path returned by getSiblingPathByLeafIndex(i), even  *)
(* index left and odd index right, yields the value getRoot() returns.     *)
Thm_C1 ==
  (pc = "done" /\ NumLeaves > 0 /\ NoLeafCompressed /\ ByIndexAnswered)
    => /\ result.outcome = "ok"
       /\ RootOf(store).outcome = "ok"
       /\ FoldUp(leaves[result.index + 1], leafLocations[result.index + 1],
                 result.path) = RootOf(store).value

Wit_C1 ==
  /\ pc = "done" /\ NumLeaves >= 5 /\ NoLeafCompressed /\ ByIndexAnswered
  /\ result.outcome = "ok" /\ Len(result.path) = 3 /\ result.index % 2 = 1

(* C2: for any pattern of compressed leaves and every index i of a leaf    *)
(* that is not compressed, folding leaf i from its recorded location       *)
(* through the path returned by getSiblingPathByLeafIndex(i) reproduces    *)
(* getRoot().                                                              *)
Cex_C2 ==
  (pc = "done" /\ ByIndexAnswered
     /\ leaves[result.index + 1] # valueToCompress)
    => /\ result.outcome = "ok"
       /\ RootOf(store).outcome = "ok"
       /\ FoldUp(leaves[result.index + 1], leafLocations[result.index + 1],
                 result.path) = RootOf(store).value

(* C3: with at least one leaf not compressed, getRoot() equals the         *)
(* reference value R over the tree shape of the leaf count.                *)
Cex_C3 ==
  (pc = "done" /\ NumLeaves > 0 /\ ~AllLeavesCompressed)
    => /\ RootOf(store).outcome = "ok"
       /\ RootOf(store).value = RefRoot(1, NumLeaves).value

(* C4: with at least two leaves of which exactly one is compressed, the    *)
(* root is the pairwise hash of the surviving leaves in which the sibling  *)
(* of the compressed leaf takes their parent's place unhashed.             *)
Thm_C4 ==
  (pc = "done" /\ NumLeaves >= 2 /\ NumCompressed = 1)
    => /\ RootOf(store).outcome = "ok"
       /\ RefRoot(1, NumLeaves).some
       /\ RootOf(store).value = RefRoot(1, NumLeaves).value

Wit_C4 ==
  /\ pc = "done" /\ NumLeaves >= 5 /\ NumCompressed = 1
  /\ leaves[4] = valueToCompress
  /\ result.op = "getRoot" /\ result.outcome = "ok"
  /\ Len(shifts) > 0 /\ Len(hashCalls) > 0

(* C5: when every leaf of a non-empty list is compressed, construction     *)
(* succeeds without calling the hasher and the root is 32 zero bytes.      *)
Thm_C5 ==
  (pc # "idle" /\ NumLeaves > 0 /\ AllLeavesCompressed)
    => /\ pc = "done"
       /\ thrown = "none"
       /\ Len(hashCalls) = 0
       /\ RootOf(store) = [outcome |-> "ok", value |-> Zero32]
       /\ (result.op = "getRoot" =>
             result.outcome = "ok" /\ result.value = Zero32)

Wit_C5 ==
  /\ pc = "done" /\ NumLeaves >= 3 /\ AllLeavesCompressed
  /\ result.op = "getRoot" /\ result.value = Zero32

(* C6: for a single leaf L that is not compressed, getRoot() returns L and *)
(* getSiblingPathByLeafIndex(0) returns the empty path.                    *)
Thm_C6 ==
  (pc # "idle" /\ NumLeaves = 1 /\ NoLeafCompressed)
    => /\ pc = "done"
       /\ RootOf(store) = [outcome |-> "ok", value |-> leaves[1]]
       /\ (result.op = "getRoot" =>
             result.outcome = "ok" /\ result.value = leaves[1])
       /\ (ByIndexAnswered =>
             result.outcome = "ok" /\ Len(result.path) = 0)

Wit_C6 ==
  /\ pc = "done" /\ NumLeaves = 1 /\ NoLeafCompressed
  /\ ByIndexAnswered /\ result.index = 0 /\ result.outcome = "ok"

(* C7: for three distinct leaves [A, B, C], none compressed, the root is   *)
(* H(H(A,B), C), the path of C is [H(A,B)] and the path of A is [B, C].    *)
ThreeDistinct ==
  /\ NumLeaves = 3 /\ NoLeafCompressed
  /\ leaves[1] # leaves[2] /\ leaves[1] # leaves[3] /\ leaves[2] # leaves[3]

Thm_C7 ==
  (pc = "done" /\ ThreeDistinct)
    => /\ RootOf(store) =
            [outcome |-> "ok",
             value |-> << <<leaves[1], leaves[2]>>, leaves[3] >>]
       /\ Len(hashCalls) = 2
       /\ (result.op = "getRoot" =>
             result.value = << <<leaves[1], leaves[2]>>, leaves[3] >>)
       /\ (ByIndexAnswered /\ result.index = 2 =>
             result.outcome = "ok"
             /\ result.path = << <<leaves[1], leaves[2]>> >>)
       /\ (ByIndexAnswered /\ result.index = 0 =>
             result.outcome = "ok"
             /\ result.path = << leaves[2], leaves[3] >>)

Wit_C7 ==
  /\ pc = "done" /\ ThreeDistinct /\ ByIndexAnswered
  /\ result.index = 0 /\ Len(result.path) = 2

(* C8: for [S, B] with S compressed and B not, the root is B, no hash is   *)
(* computed and the path of B is empty.                                    *)
SentinelThenLeaf ==
  /\ NumLeaves = 2
  /\ leaves[1] = valueToCompress
  /\ leaves[2] # valueToCompress

Thm_C8 ==
  (pc # "idle" /\ SentinelThenLeaf)
    => /\ pc \in {"build", "done"}
       /\ Len(hashCalls) = 0
       /\ (pc = "done" =>
             /\ RootOf(store) = [outcome |-> "ok", value |-> leaves[2]]
             /\ (result.op = "getRoot" => result.value = leaves[2])
             /\ (ByIndexAnswered /\ result.index = 1 =>
                   result.outcome = "ok" /\ Len(result.path) = 0))

Wit_C8 ==
  /\ pc = "done" /\ SentinelThenLeaf /\ ByIndexAnswered
  /\ result.index = 1 /\ result.outcome = "ok"

(* C9: construction from an empty leaf list fails with the construction    *)
(* error before any node is stored; no calculator or root is produced.     *)
Thm_C9 ==
  (pc # "idle" /\ NumLeaves = 0)
    => /\ pc = "failed"
       /\ thrown = "Cannot create a compressed unbalanced tree with 0 leaves."
       /\ DOMAIN store = {}
       /\ Len(leafLocations) = 0
       /\ result = NoResult

Wit_C9 == pc = "failed" /\ NumLeaves = 0 /\ thrown # "none"

(* C10: getSiblingPathByLeafIndex(i) fails with the out-of-bounds error    *)
(* for every i outside [0, leafCount), negative i included.                *)
Cex_C10 ==
  (pc = "done" /\ result.op = "getSiblingPathByLeafIndex"
     /\ result.index \notin LeafIndices)
    => result.outcome = "out of bounds" /\ Len(result.path) = 0

(* The lowest index whose leaf equals value. *)
FirstIndexOf(value) ==
  CHOOSE i \in LeafIndices :
    leaves[i + 1] = value /\ \A j \in 0..(i - 1) : leaves[j + 1] # value

IsLeafValue(value) == \E i \in LeafIndices : leaves[i + 1] = value

ByIndexOutcome(i) ==
  siblingPathByLeafIndex(leaves, valueToCompress, store, leafLocations, i)

ResultOutcome == [outcome |-> result.outcome, path |-> result.path]

(* C11: getSiblingPath(v) fails with the not-found error exactly when no   *)
(* leaf equals v; otherwise it gives what getSiblingPathByLeafIndex gives  *)
(* for the lowest index whose leaf equals v.                               *)
Thm_C11 ==
  (pc = "done" /\ result.op = "getSiblingPath")
    => /\ (result.outcome = "not found") <=> ~IsLeafValue(result.value)
       /\ IsLeafValue(result.value)
            => ResultOutcome = ByIndexOutcome(FirstIndexOf(result.value))

Wit_C11 ==
  /\ pc = "done" /\ result.op = "getSiblingPath"
  /\ IsLeafValue(result.value) /\ result.outcome = "ok"
  /\ FirstIndexOf(result.value) > 0
  /\ \E i \in LeafIndices :
       i > FirstIndexOf(result.value) /\ leaves[i + 1] = result.value

(* C12: a path query for a compressed leaf, by an in-range index or by the *)
(* sentinel value, fails with the compressed-leaf error, which is neither  *)
(* the bounds error nor the lookup error, and returns no path.             *)
Thm_C12 ==
  /\ (pc = "done" /\ ByIndexAnswered
        /\ leaves[result.index + 1] = valueToCompress)
       => /\ result.outcome = "has been compressed"
          /\ result.outcome \notin {"ok", "out of bounds", "not found"}
          /\ Len(result.path) = 0
  /\ (pc = "done" /\ result.op = "getSiblingPath"
        /\ result.value = valueToCompress /\ IsLeafValue(valueToCompress))
       => /\ result.outcome = "has been compressed"
          /\ Len(result.path) = 0

Wit_C12 ==
  /\ pc = "done" /\ ByIndexAnswered /\ NumLeaves >= 3
  /\ leaves[result.index + 1] = valueToCompress
  /\ ~AllLeavesCompressed
  /\ result.outcome = "has been compressed"

(* C13 as claimed: for every index i of a leaf that is not compressed,     *)
(* getSiblingPath(leaves[i]) returns what getSiblingPathByLeafIndex(i)     *)
(* returns.                                                                *)
Cex_C13 ==
  (pc = "done" /\ result.op = "getSiblingPath")
    => \A i \in LeafIndices :
         (leaves[i + 1] = result.value /\ leaves[i + 1] # valueToCompress)
           => ResultOutcome = ByIndexOutcome(i)

(* C13 amended: the two queries agree for every index i of a leaf that is  *)
(* not compressed and whose value occurs at no lower index.                *)
Thm_C13 ==
  (pc = "done" /\ result.op = "getSiblingPath")
    => \A i \in LeafIndices :
         (/\ leaves[i + 1] = result.value
          /\ leaves[i + 1] # valueToCompress
          /\ \A j \in 0..(i - 1) : leaves[j + 1] # leaves[i + 1])
           => ResultOutcome = ByIndexOutcome(i)

Wit_C13 ==
  /\ pc = "done" /\ result.op = "getSiblingPath" /\ result.outcome = "ok"
  /\ NumLeaves >= 3 /\ Len(result.path) >= 1
  /\ \E i \in LeafIndices :
       /\ i > 0 /\ leaves[i + 1] = result.value
       /\ \A j \in 0..(i - 1) : leaves[j + 1] # leaves[i + 1]

(* C15: whenever construction hashes a sibling pair, the node being        *)
(* processed, whose value is the left operand, is the one at the even      *)
(* index, and the right operand is the value at the odd index.             *)
Cex_C15 ==
  \A k \in 1..Len(hashCalls) : hashCalls[k].at.index % 2 = 0

(* C16: once construction is done, every query, returning or failing,      *)
(* leaves the node store, the recorded leaf locations and the constructor  *)
(* arguments as they were, and a query repeated right after itself gets    *)
(* the answer it got before.                                               *)
SameQuery(r, s) ==
  r.op = s.op /\ r.index = s.index /\ (r.op = "getSiblingPath" => r.value = s.value)

Thm_C16 ==
  [][pc = "done" =>
       /\ pc' = "done"
       /\ store' = store
       /\ leafLocations' = leafLocations
       /\ leaves' = leaves
       /\ valueToCompress' = valueToCompress
       /\ (SameQuery(result, result') => result' = result)]_vars

Wit_C16 ==
  /\ pc = "done" /\ NumLeaves >= 4 /\ Len(hashCalls) >= 2
  /\ result.op = "getSiblingPath" /\ result.outcome = "has been compressed"

(* C17: for every non-empty leaf list construction completes without an    *)
(* error and leaves a node at the root location, so getRoot() returns.     *)
Cex_C17 ==
  (pc # "idle" /\ NumLeaves > 0)
    => /\ pc \in {"build", "done"}
       /\ thrown = "none"
       /\ (pc = "done" => RootOf(store).outcome = "ok")
       /\ (result.op = "getRoot" => result.outcome = "ok")

(* The location k levels above location. *)
RECURSIVE Ancestor(_, _)
Ancestor(location, k) ==
  IF k = 0 THEN location
  ELSE Ancestor([level |-> location.level - 1, index |-> location.index \div 2],
                k - 1)

SiblingOf(location) ==
  [level |-> location.level,
   index |-> IF location.index % 2 = 0 THEN location.index + 1
             ELSE location.index - 1]

Cex_C20 ==
  pc = "done"
    => \A i \in LeafIndices :
         leaves[i + 1] # valueToCompress
           => /\ leafLocations[i + 1] \in DOMAIN store
              /\ store[leafLocations[i + 1]].value = leaves[i + 1]
              /\ store[leafLocations[i + 1]].leafIndex = i

(* The blobs accumulated and the blobs of the epoch, block by block. *)
AccumulatedBlobs == Flatten(accumulated)
EpochBlobList == Flatten(epochBlobs)

IsStrictPrefix(s, t) ==
  Len(s) < Len(t) /\ s = SubSeq(t, 1, Len(s))

CountOf(b, s) == Cardinality({ i \in 1..Len(s) : s[i] = b })

IsReordering(s, t) ==
  /\ s # t
  /\ Len(s) = Len(t)
  /\ \A b \in BlobIds : CountOf(b, s) = CountOf(b, t)

DistinctChallenges(blocks) ==
  LET zs == challengeZs(blocks)
  IN \A i, j \in 1..Len(zs) : i # j => zs[i] # zs[j]

Finalized == bpc = "created" /\ blobOutcome.op = "finalize"

MismatchOutcomes ==
  { "Blob batching mismatch: accumulated z",
    "Blob batching mismatch: accumulated gamma" }

(* C18: an accumulator created by newAccumulator over the blobs of a       *)
(* non-empty sequence of blocks finalizes without a mismatch once every    *)
(* block has been accumulated in order: zAcc, which is z_0 after the first *)
(* blob and poseidon2Hash([zAcc, z_i]) after each later one, equals the    *)
(* precomputed z, and poseidon2Hash([gammaAcc, z]) equals the precomputed  *)
(* gamma; finalizing after a strict prefix of the blobs, or after the      *)
(* blobs in another order when their challenges are distinct, fails with   *)
(* the mismatch error.                                                     *)
Thm_C18 ==
  Finalized =>
    /\ accumulated = epochBlobs
         => /\ blobOutcome.outcome = "ok"
            /\ accumulator.zAcc
                 = hashChain(challengeZs(epochBlobs), Len(EpochBlobList))
            /\ accumulator.zAcc = accumulator.finalBlobChallenges.z
            /\ poseidon2Hash(<<accumulator.gammaAcc,
                               accumulator.finalBlobChallenges.z>>)
                 = toBN254Fr(accumulator.finalBlobChallenges.gamma)
    /\ IsStrictPrefix(AccumulatedBlobs, EpochBlobList)
         => blobOutcome.outcome \in MismatchOutcomes
    /\ (IsReordering(AccumulatedBlobs, EpochBlobList)
          /\ DistinctChallenges(epochBlobs))
         => blobOutcome.outcome \in MismatchOutcomes

Wit_C18 ==
  /\ Finalized
  /\ accumulated = epochBlobs
  /\ Len(epochBlobs) >= 2
  /\ epochBlobs[1] # epochBlobs[2]
  /\ blobOutcome.outcome = "ok"

(* The shifts made while one internal node was moved from one location to  *)
(* another cover its children when both children were moved to the child   *)
(* locations of the destination.                                           *)
ChildrenFollow(k) ==
  LET from == shifts[k].from
      to   == shifts[k].to
  IN \A side \in 1..2 :
       \E c \in 1..Len(shifts) :
         /\ shifts[c].from = getChildLocations(from)[side]
         /\ shifts[c].to = getChildLocations(to)[side]

(* C21: whenever an internal node has been moved up, by a promotion or as  *)
(* a descendant of a promoted node, its former left and right children are *)
(* moved to the left and right child locations of its new location.        *)
Cex_C21 ==
  (pc \in {"build", "done"})
    => \A k \in 1..Len(shifts) :
         shifts[k].node.leafIndex = undefined => ChildrenFollow(k)

(* C22: construction of a non-empty leaf list terminates: the level loop   *)
(* counts down to level 1 and then construction is done, and no relocation *)
(* reads a location that holds no node.                                    *)
Cex_C22 ==
  (NumLeaves > 0 /\ pc # "idle")
    => \/ pc = "done" /\ lvl = 0
       \/ pc = "build" /\ lvl >= 1 /\ cursor <= Len(toProcess)
            /\ \A k \in 1..Len(shifts) : shifts[k].from \in DOMAIN store

(* C24: no invocation of the hasher during construction has an operand     *)
(* equal to the sentinel.                                                  *)
Thm_C24 ==
  \A k \in 1..Len(hashCalls) :
    /\ ~IsCompressed(hashCalls[k].left, valueToCompress)
    /\ ~IsCompressed(hashCalls[k].right, valueToCompress)

Wit_C24 ==
  /\ pc = "done" /\ NumCompressed >= 2 /\ Len(hashCalls) >= 2
  /\ Len(shifts) >= 1

(* C26: after construction, two different leaves that are not compressed   *)
(* never have the same recorded location.                                  *)
Cex_C26 ==
  pc = "done"
    => \A i, j \in LeafIndices :
         (i # j /\ leaves[i + 1] # valueToCompress
                /\ leaves[j + 1] # valueToCompress)
           => leafLocations[i + 1] # leafLocations[j + 1]

(* The shifts one step of the build has added. *)
NewShifts == (Len(shifts) + 1)..Len(shifts')

(* The work-list entries the inner loop has not reached yet. *)
Pending == { toProcess[j] : j \in (cursor + 2)..Len(toProcess) }

(* C27: a step of the build that relocates nodes never writes to a         *)
(* location still pending in the work list of the level, nor over a hash   *)
(* that is not part of what is being moved, nor over the recorded location *)
(* of a leaf that is not compressed and is not being moved.                *)
Cex_C27 ==
  [][\A k \in NewShifts :
       LET to == shifts'[k].to
       IN /\ to \notin Pending
          /\ (hasNode(store, to) /\ store[to].leafIndex = undefined)
               => \E m \in NewShifts : shifts'[m].from = to
          /\ \A i \in LeafIndices :
               (leaves[i + 1] # valueToCompress /\ leafLocations[i + 1] = to)
                 => \E m \in NewShifts : shifts'[m].node.leafIndex = i]_vars

(* A step of the build that relocates a node. *)
Promotes == pc = "build" /\ shifts' # shifts

(* A step of the build that takes a hash. *)
Hashes == pc = "build" /\ hashCalls' # hashCalls

(* The work-list entry the next step of the build processes. *)
Current == toProcess[cursor + 1]

(* C23: a step of the build promotes the node it processes only when the   *)
(* sibling location holds no node or holds a leaf equal to the sentinel;   *)
(* when the sibling is a node produced by hashing and the parent is not    *)
(* yet set, the step hashes the two, whichever hasher was injected.        *)
Cex_C23 ==
  [][/\ Promotes
       => \/ ~hasNode(store, SiblingLocation(Current))
          \/ /\ IsLeafNode(store, SiblingLocation(Current))
             /\ IsCompressed(store[SiblingLocation(Current)].value,
                             valueToCompress)
     /\ (/\ pc = "build" /\ cursor < Len(toProcess)
         /\ Current.level = lvl
         /\ ~hasNode(store, getParentLocation(Current))
         /\ hasNode(store, SiblingLocation(Current))
         /\ ~IsLeafNode(store, SiblingLocation(Current)))
       => Hashes]_vars

(* The state right after the leaves were written and the first work list   *)
(* was taken, before any work-list entry is processed.                     *)
AfterFirstBuildStep ==
  /\ pc = "build" /\ cursor = 0
  /\ Len(hashCalls) = 0 /\ Len(shifts) = 0 /\ Len(toProcessNext) = 0

Cex_C28 ==
  [][(spc' = "init" /\ spongeBlob'.numExpectedFields >= 1)
       => /\ spongeBlob'.numAbsorbedFields >= 1
          /\ spongeBlob'.numAbsorbedFields <= spongeBlob'.numExpectedFields
          /\ (spc = "init" => spongeBlob'.numExpectedFields
                                = spongeBlob.numExpectedFields)
          /\ (/\ spc = "init"
              /\ spongeOutcome'.op = "SpongeBlob.absorb"
              /\ spongeBlob.numAbsorbedFields + Len(spongeOutcome'.fields)
                   > spongeBlob.numExpectedFields)
               => /\ spongeOutcome'.outcome
                       = "Attempted to fill spongeBlob over its max"
                  /\ spongeBlob' = spongeBlob]_vars

Poseidon2SpongeErrors ==
  { "Poseidon sponge is not able to absorb more inputs.",
    "Poseidon sponge has already been squeezed." }

(* C29: once a squeeze of the sponge has succeeded, squeezeMode stays     *)
(* true and every absorb, even of no fields, and every squeeze invoked     *)
(* from then on fails and leaves cache, cacheSize and state as they were;  *)
(* until then cacheSize stays within 0..3.                                 *)
Thm_C29 ==
  [][/\ (spc # "idle" /\ spongeBlob.sponge.squeezeMode)
          => /\ spongeBlob'.sponge.squeezeMode
             /\ spongeOutcome'.called # "none"
                  => /\ spongeOutcome'.outcome \in Poseidon2SpongeErrors
                     /\ spongeBlob'.sponge = spongeBlob.sponge
     /\ ~spongeBlob'.sponge.squeezeMode
          => /\ spongeBlob'.sponge.cacheSize >= 0
             /\ spongeBlob'.sponge.cacheSize <= 3
             /\ Len(spongeBlob'.sponge.cache) = 3]_vars

Wit_C29 ==
  /\ spc # "idle"
  /\ spongeBlob.sponge.squeezeMode
  /\ spongeAbsorbed >= 4
  /\ spongeOutcome.op = "Poseidon2Sponge.absorb"
  /\ Len(spongeOutcome.fields) = 0
  /\ spongeOutcome.outcome = "Poseidon sponge is not able to absorb more inputs."

(* Every field of the marker is below 2^width. *)
FitsWidths(m) ==
  \A f \in MarkerFields : Len(m[f]) <= BitSizeOf[f] \div BitsPerByte

(* C30: a marker whose fields fit their widths is decoded from its         *)
(* encoding with every field unchanged and the prefix TX_START_PREFIX, so  *)
(* it is valid; a field built with another prefix is decoded without an    *)
(* error and reported as not valid.                                        *)
Thm_C30 ==
  mpc = "decoded"
    => /\ (markerPrefix = TX_START_PREFIX /\ FitsWidths(marker))
            => /\ \A f \in MarkerFields : decoded[f] = marker[f]
               /\ decoded.prefix = TX_START_PREFIX
               /\ markerValid
       /\ markerPrefix # TX_START_PREFIX
            => /\ DOMAIN decoded = MarkerFields \cup {"prefix"}
               /\ decoded.prefix = markerPrefix
               /\ ~markerValid

Wit_C30 ==
  /\ mpc = "decoded"
  /\ markerPrefix = TX_START_PREFIX
  /\ marker.numBlobFields = maxOfWidth(NUM_BLOB_FIELDS_BIT_SIZE)
  /\ marker.revertCode = <<1>>
  /\ marker.contractClassLogLength = maxOfWidth(CONTRACT_CLASS_LOG_LENGTH_BIT_SIZE)
  /\ marker.publicLogsLength = BigZero
  /\ marker.numNoteHashes = maxOfWidth(NUM_NOTE_HASH_BIT_SIZE)
  /\ markerValid

====
